---------------------------- MODULE Spec2Model ----------------------------
(***************************************************************************)
(* Reverse-mode differentiation of the Cholesky factorisation (Smith's     *)
(* method), as implemented three times in "Cholesky backprop.ipynb":       *)
(*   backprop_gradient_pure        (python / numpy, sequential)            *)
(*   backprop_gradient_cython      (cython, sequential)                    *)
(*   backprop_gradient_cython_par  (cython, prange over the rows of step 1)*)
(*                                                                         *)
(* Numbers.  The code computes in IEEE doubles.  The model computes in     *)
(* exact rationals <<num, den>> (den > 0, lowest terms) and keeps one      *)
(* absorbing non-finite value NaN = <<0, 0>> for what a division by zero   *)
(* yields in numpy (inf or nan; every later operation on it stays          *)
(* non-finite because every divisor of the kernel is an entry of L).       *)
(* Rounding is therefore abstracted: equalities below are equalities of    *)
(* the exact results.                                                      *)
(***************************************************************************)
EXTENDS Integers, FiniteSets, Sequences, TLC

\* ------------------------------------------------------------------ bounds
\* the largest n of an n x n call (and the longest side of a mismatched array)
MaxN == 3

\* ------------------------------------------------------------- arithmetic
Abs(x) == IF x < 0 THEN -x ELSE x

RECURSIVE GCD(_, _)
GCD(a, b) == IF b = 0 THEN a ELSE GCD(b, a % b)

\* a double holding the exact value n/d (d # 0)
Rat(n, d) ==
    LET g == GCD(Abs(n), Abs(d))
        s == IF d < 0 THEN -1 ELSE 1
    IN  <<(s * n) \div g, (s * d) \div g>>

Num(n) == <<n, 1>>
Zero == Num(0)
NaN == <<0, 0>>
IsFinite(x) == x[2] # 0

\* x - y, x * y, x / y on doubles
FSub(x, y) ==
    IF IsFinite(x) /\ IsFinite(y)
    THEN Rat(x[1] * y[2] - y[1] * x[2], x[2] * y[2])
    ELSE NaN

FMul(x, y) ==
    IF IsFinite(x) /\ IsFinite(y) THEN Rat(x[1] * y[1], x[2] * y[2]) ELSE NaN

\* numpy float64 division: a zero divisor gives inf or nan (a warning, no error)
FDiv(x, y) ==
    IF IsFinite(x) /\ IsFinite(y) /\ y[1] # 0
    THEN Rat(x[1] * y[2], x[2] * y[1])
    ELSE NaN

\* --------------------------------------------------------------- matrices
\* a dense 2-d array: shape (rows, cols) and its cells, indexed from 0
Cells(r, c) == (0 .. r - 1) \X (0 .. c - 1)
NoMatrix == [rows |-> 0, cols |-> 0, at |-> [x \in {} |-> Zero]]

InBounds(M, cell) == cell \in DOMAIN M.at
AllIn(M, cells) == \A cell \in cells : InBounds(M, cell)
At(M, r, c) == M.at[<<r, c>>]
Put(M, r, c, v) == [M EXCEPT !.at[<<r, c>>] = v]

\* (a slip: the seed copied without np.tril)
TrilUnmasked(M) == M

\* np.tril(m).copy(): the lower triangle, diagonal included; zero above
Tril(M) ==
    [M EXCEPT !.at = [x \in DOMAIN M.at |->
                        IF x[1] >= x[2] THEN M.at[x] ELSE Zero]]

\* ------------------------------------------------- the kernel's statements
\* The cells a statement touches: tgt, the adjoint cell it updates in place;
\* mul, the adjoint cell it multiplies with; fac, the cell of L it reads.

\* step 1, first update:    df_dK[i, k] -= df_dK[i, j] * L[j, k]
Update1Cells(ii, jj, kk) == [tgt |-> <<ii, kk>>, mul |-> <<ii, jj>>, fac |-> <<jj, kk>>]

\* (a slip: the factor of the first update, L[j, k], copied into the second)
Update2CellsCopied(ii, jj, kk) ==
    [tgt |-> <<jj, kk>>, mul |-> <<ii, jj>>, fac |-> <<jj, kk>>]

\* step 1, second update:   df_dK[j, k] -= df_dK[i, j] * L[i, k]
Update2Cells(ii, jj, kk) == [tgt |-> <<jj, kk>>, mul |-> <<ii, jj>>, fac |-> <<ii, kk>>]

\* step 2, division:        df_dK[j, k] /= L[k, k]
NormalizeCells(jj, kk) == [tgt |-> <<jj, kk>>, fac |-> <<kk, kk>>]

\* (a slip: the fold lands on the diagonal cell of row j, not of column k)
FoldCellsOtherDiagonal(jj, kk) ==
    [tgt |-> <<jj, jj>>, mul |-> <<jj, kk>>, fac |-> <<jj, kk>>]

\* step 2, fold:            df_dK[k, k] -= L[j, k] * df_dK[j, k]
FoldCells(jj, kk) == [tgt |-> <<kk, kk>>, mul |-> <<jj, kk>>, fac |-> <<jj, kk>>]

\* step 3:                  df_dK[k, k] /= (2 * L[k, k])
CloseCells(kk) == [tgt |-> <<kk, kk>>, fac |-> <<kk, kk>>]

\* the value of "A[tgt] - A[mul] * L[fac]"
SubMulValue(A, Lm, c) == FSub(A.at[c.tgt], FMul(A.at[c.mul], Lm.at[c.fac]))

\* "A[tgt] -= A[mul] * L[fac]"
SubMul(A, Lm, c) == [A EXCEPT !.at[c.tgt] = SubMulValue(A, Lm, c)]

\* the divisors of step 2 and step 3
NormalizeDivisor(Lm, c) == Lm.at[c.fac]
\* (a slip: the 2 of the square root's derivative left out)
CloseDivisorWithoutTwo(Lm, c) == Lm.at[c.fac]
CloseDivisor(Lm, c) == FMul(Num(2), Lm.at[c.fac])

\* "A[tgt] /= d"
DivideBy(A, c, d) == [A EXCEPT !.at[c.tgt] = FDiv(A.at[c.tgt], d)]

Update1(A, Lm, ii, jj, kk) == SubMul(A, Lm, Update1Cells(ii, jj, kk))
Update2(A, Lm, ii, jj, kk) == SubMul(A, Lm, Update2Cells(ii, jj, kk))
Normalize(A, Lm, jj, kk) ==
    DivideBy(A, NormalizeCells(jj, kk), NormalizeDivisor(Lm, NormalizeCells(jj, kk)))
FoldDiag(A, Lm, jj, kk) == SubMul(A, Lm, FoldCells(jj, kk))
CloseDiag(A, Lm, kk) ==
    DivideBy(A, CloseCells(kk), CloseDivisor(Lm, CloseCells(kk)))

\* --------------------------------- the sequential kernel as a function
\* for j in xrange(k + 1, N): for i in xrange(j, N): <update 1>; <update 2>
RECURSIVE Step1Seq(_, _, _, _, _)
Step1Seq(A, Lm, kk, jj, ii) ==
    IF jj >= Lm.rows THEN A
    ELSE IF ii >= Lm.rows THEN Step1Seq(A, Lm, kk, jj + 1, jj + 1)
    ELSE Step1Seq(Update2(Update1(A, Lm, ii, jj, kk), Lm, ii, jj, kk),
                  Lm, kk, jj, ii + 1)

\* for j in xrange(k + 1, N): <division>; <fold>
RECURSIVE Step2Seq(_, _, _, _)
Step2Seq(A, Lm, kk, jj) ==
    IF jj >= Lm.rows THEN A
    ELSE Step2Seq(FoldDiag(Normalize(A, Lm, jj, kk), Lm, jj, kk), Lm, kk, jj + 1)

\* for k in xrange(N - 1, -1, -1): step 1; step 2; step 3
RECURSIVE ColumnSweep(_, _, _)
ColumnSweep(A, Lm, kk) ==
    IF kk < 0 THEN A
    ELSE ColumnSweep(
           CloseDiag(Step2Seq(Step1Seq(A, Lm, kk, kk + 1, kk + 1), Lm, kk, kk + 1),
                     Lm, kk),
           Lm, kk - 1)

\* the whole sequential kernel on inputs of one square shape
backprop_gradient_pure(dF, Lm) == ColumnSweep(Tril(dF), Lm, Lm.rows - 1)

\* ------------------------------------------------------------------ state
VARIABLES
    impl,      \* which implementation is called: "pure", "cython" or "par"
    nthreads,  \* size of the OpenMP team that runs the prange
    L,         \* argument L
    df_dL,     \* argument df_dL
    df_dK,     \* the local df_dK (the adjoint), NoMatrix before the call
    N,         \* the local N
    pc,        \* the statement the calling thread executes next
    k, j, i,   \* the loop variables of the calling thread (-1: unassigned)
    task,      \* par: the iterations of the current prange, by row i
    outcome,   \* "running", "returned", or the error the call ended in
    access     \* the memory cells the last statement touched

vars == <<impl, nthreads, L, df_dL, df_dK, N, pc, k, j, i, task, outcome, access>>

Impls == {"pure", "cython", "par"}
\* what the last statement touched: by, the prange iteration (-1: the calling
\* thread); step and col, the step (1, 2, 3) and the column k it belongs to;
\* wr and rd, the adjoint cells written and read; mul, those of rd read as
\* the multiplicand; lrd, the cells of L read; div, those of lrd divided by
NoAccess ==
    [by |-> -1, step |-> 0, col |-> -1, wr |-> {}, rd |-> {}, mul |-> {},
     lrd |-> {}, div |-> {}]
\* "A[tgt] -= A[mul] * L[fac]" as a whole, its load alone, its store alone
TouchSubMul(who, s, kk, c) ==
    [by |-> who, step |-> s, col |-> kk, wr |-> {c.tgt}, rd |-> {c.tgt, c.mul},
     mul |-> {c.mul}, lrd |-> {c.fac}, div |-> {}]
TouchLoad(who, s, kk, c) == [TouchSubMul(who, s, kk, c) EXCEPT !.wr = {}]
TouchStore(who, s, kk, c) ==
    [by |-> who, step |-> s, col |-> kk, wr |-> {c.tgt}, rd |-> {}, mul |-> {},
     lrd |-> {}, div |-> {}]
\* "A[tgt] /= <divisor from L[fac]>"
TouchDivide(s, kk, c) ==
    [by |-> -1, step |-> s, col |-> kk, wr |-> {c.tgt}, rd |-> {c.tgt}, mul |-> {},
     lrd |-> {c.fac}, div |-> {c.fac}]

\* ------------------------------------------------------------ control flow
Pos(p, kk, jj, ii) == [pc |-> p, k |-> kk, j |-> jj, i |-> ii]

\* head of "for j in range(k + 1, N)" of step 2, then step 3
Step2Start(n, kk, jj, ii) ==
    IF kk + 1 < n THEN Pos("s2a", kk, kk + 1, ii) ELSE Pos("s3", kk, jj, ii)

\* heads of "for j in xrange(k + 1, N): for i in xrange(j, N)" of step 1
Step1Start(n, kk, jj, ii) ==
    IF kk + 1 < n THEN Pos("s1a", kk, kk + 1, kk + 1) ELSE Step2Start(n, kk, jj, ii)

\* the next (j, i) of step 1 after its second update
After1b(n, kk, jj, ii) ==
    IF ii + 1 < n THEN Pos("s1a", kk, jj, ii + 1)
    ELSE IF jj + 1 < n THEN Pos("s1a", kk, jj + 1, jj + 1)
    ELSE Step2Start(n, kk, jj, ii)

\* the next j of step 2 after its fold
After2b(n, kk, jj, ii) ==
    IF jj + 1 < n THEN Pos("s2a", kk, jj + 1, ii) ELSE Pos("s3", kk, jj, ii)

\* (a slip: the k loop written range(N - 1, 0, -1), which ends before column 0)
EnterColumnStopsAtOne(im, n, kk, jj, ii) ==
    IF kk <= 0 THEN Pos("done", kk + 1, jj, ii)
    ELSE IF im = "par" THEN Pos("p1", kk, jj, ii)
    ELSE Step1Start(n, kk, jj, ii)

\* head of "for k in range(N - 1, -1, -1)": column kk is next, if there is one
EnterColumn(im, n, kk, jj, ii) ==
    IF kk < 0 THEN Pos("done", kk + 1, jj, ii)
    ELSE IF im = "par" THEN Pos("p1", kk, jj, ii)
    ELSE Step1Start(n, kk, jj, ii)

Goto(p) == /\ pc' = p.pc /\ k' = p.k /\ j' = p.j /\ i' = p.i
           /\ outcome' = IF p.pc = "done" THEN "returned" ELSE outcome

\* one iteration of "for i in prange(k + 1, N)", not yet started
IdleTask(kk) ==
    [st |-> "idle", ph |-> "load", j |-> -1, tmp |-> Zero, col |-> kk,
     rd |-> {}, wr |-> {}]

\* the iterations of the prange of column p.k, when p enters one
TasksAt(p, n) ==
    IF p.pc = "p1" THEN [r \in (p.k + 1) .. (n - 1) |-> IdleTask(p.k)] ELSE task

\* an index outside an array: numpy raises IndexError; the cython kernels are
\* compiled with boundscheck=False, so the access is undefined behaviour
OutOfBounds(im) == IF im = "pure" THEN {"IndexError"} ELSE {"SegFault", "Undefined"}

Fault(errors) ==
    /\ pc' = "done"
    /\ outcome' \in errors
    /\ access' = NoAccess
    /\ UNCHANGED <<impl, nthreads, L, df_dL, df_dK, N, k, j, i, task>>

\* ----------------------------------------------------------------- inputs
Lower(n) == {x \in Cells(n, n) : x[1] >= x[2]}
StrictLower(n) == {x \in Cells(n, n) : x[1] > x[2]}

\* diagonals of a factor: all 1, or 1, 2, 3, ... (all 2 for the bad factors)
DiagPats == {"one", "ramp"}
DiagVal(d, r) == IF d = "one" THEN 1 ELSE IF d = "two" THEN 2 ELSE r + 1

\* the cells below the diagonal that are not zero: none, one of them, or all
OffPats(n) == {{}, StrictLower(n)} \cup {{x} : x \in StrictLower(n)}

\* a lower-triangular n x n factor: diagonal d, L[r, c] = r + c on the cells o
FactorOf(n, d, o) ==
    [rows |-> n, cols |-> n,
     at |-> [x \in Cells(n, n) |->
               IF x[1] = x[2] THEN Num(DiagVal(d, x[1]))
               ELSE IF x \in o THEN Num(x[1] + x[2]) ELSE Zero]]

Factors(n) == {FactorOf(n, d, o) : d \in DiagPats, o \in OffPats(n)}

\* factors with one diagonal entry zero or negative
BadDiagVals == {0, -1}
BadFactors(n) ==
    {Put(FactorOf(n, "two", o), b, b, Num(v)) :
        o \in {{}, StrictLower(n)}, b \in 0 .. n - 1, v \in BadDiagVals}

\* seeds: a unit matrix (1 in one cell of the lower triangle, or in the
\* upper right corner), all ones, or the dense df_dL[r, c] = r - 2c + 1
SeedPats(n) == {<<"unit", x>> : x \in Lower(n) \cup {<<0, n - 1>>}}
                  \cup {<<"ones", <<0, 0>>>>, <<"ramp", <<0, 0>>>>}
SeedOf(n, s) ==
    [rows |-> n, cols |-> n,
     at |-> [x \in Cells(n, n) |->
               IF s[1] = "unit" THEN (IF x = s[2] THEN Num(1) ELSE Zero)
               ELSE IF s[1] = "ones" THEN Num(1)
               ELSE Num(x[1] - 2 * x[2] + 1)]]
Seeds(n) == {SeedOf(n, s) : s \in SeedPats(n)}

\* arrays of any shape, for calls whose arguments do not fit each other
RectFactor(r, c) ==
    [rows |-> r, cols |-> c,
     at |-> [x \in Cells(r, c) |->
               IF x[1] = x[2] THEN Num(2) ELSE IF x[1] > x[2] THEN Num(1) ELSE Zero]]
RectSeed(r, c) == [rows |-> r, cols |-> c, at |-> [x \in Cells(r, c) |-> Num(1)]]

\* the sizes n of the square calls, the empty one included
Sizes == 0 .. MaxN
ValidInputs == UNION {Factors(n) \X Seeds(n) : n \in Sizes}
BadDiagInputs ==
    UNION {BadFactors(n) \X {SeedOf(n, <<"ones", <<0, 0>>>>)} : n \in Sizes}
\* the sides of the arrays of the calls whose shapes do not fit
Sides == 1 .. MaxN
MismatchInputs ==
    {<<RectFactor(s[1], s[2]), RectSeed(s[3], s[4])>> :
        s \in {t \in Sides \X Sides \X Sides \X Sides :
                 ~(t[1] = t[2] /\ t[2] = t[3] /\ t[3] = t[4])}}
Inputs == ValidInputs \cup BadDiagInputs \cup MismatchInputs

\* an implementation and, for the parallel one, the size of its thread team
\* (1 thread, 2 threads, and more threads than any n has rows)
Teams == {1, 2, MaxN + 1}
Configs == {<<"pure", 1>>, <<"cython", 1>>} \cup {<<"par", t>> : t \in Teams}

Init ==
    /\ \E c \in Configs : impl = c[1] /\ nthreads = c[2]
    /\ \E inp \in Inputs : L = inp[1] /\ df_dL = inp[2]
    /\ df_dK = NoMatrix
    /\ N = -1
    /\ pc = "call"
    /\ k = -1 /\ j = -1 /\ i = -1
    /\ task = [r \in {} |-> IdleTask(-1)]
    /\ outcome = "running"
    /\ access = NoAccess

\* ---------------------------------------------------------------- actions
\* df_dK = np.tril(df_dL).copy(); N = L.shape[0]; the head of the k loop
Call ==
    /\ pc = "call"
    /\ df_dK' = Tril(df_dL)
    /\ N' = L.rows
    /\ LET p == IF L.rows = 0 THEN Pos("done", k, j, i)
                ELSE EnterColumn(impl, L.rows, L.rows - 1, j, i)
       IN  Goto(p) /\ task' = TasksAt(p, L.rows)
    /\ access' = NoAccess
    /\ UNCHANGED <<impl, nthreads, L, df_dL>>

\* sequential step 1, first update
S1a ==
    /\ pc = "s1a"
    /\ LET c == Update1Cells(i, j, k)
       IN  IF AllIn(df_dK, {c.tgt, c.mul}) /\ InBounds(L, c.fac)
           THEN /\ df_dK' = SubMul(df_dK, L, c)
                /\ Goto(Pos("s1b", k, j, i))
                /\ access' = TouchSubMul(-1, 1, k, c)
                /\ UNCHANGED <<impl, nthreads, L, df_dL, N, task>>
           ELSE Fault(OutOfBounds(impl))

\* sequential step 1, second update
S1b ==
    /\ pc = "s1b"
    /\ LET c == Update2Cells(i, j, k)
       IN  IF AllIn(df_dK, {c.tgt, c.mul}) /\ InBounds(L, c.fac)
           THEN /\ df_dK' = SubMul(df_dK, L, c)
                /\ Goto(After1b(N, k, j, i))
                /\ access' = TouchSubMul(-1, 1, k, c)
                /\ UNCHANGED <<impl, nthreads, L, df_dL, N, task>>
           ELSE Fault(OutOfBounds(impl))

\* Cython (cdivision off) tests a C double divisor for zero and raises
\* ZeroDivisionError instead of dividing; numpy divides
DivisionRaises(im, d) == im # "pure" /\ d = Zero

\* (a slip: the division assigns to L instead of df_dK)
S2aIntoFactor ==
    /\ pc = "s2a"
    /\ LET c == NormalizeCells(j, k)
       IN  /\ AllIn(L, {c.tgt, c.fac})
           /\ ~DivisionRaises(impl, NormalizeDivisor(L, c))
           /\ L' = DivideBy(L, c, NormalizeDivisor(L, c))
           /\ Goto(Pos("s2b", k, j, i))
           /\ access' = TouchDivide(2, k, c)
           /\ UNCHANGED <<impl, nthreads, df_dK, df_dL, N, task>>

\* step 2, division
S2a ==
    /\ pc = "s2a"
    /\ LET c == NormalizeCells(j, k)
       IN  IF ~(InBounds(df_dK, c.tgt) /\ InBounds(L, c.fac))
           THEN Fault(OutOfBounds(impl))
           ELSE IF DivisionRaises(impl, NormalizeDivisor(L, c))
           THEN Fault({"ZeroDivisionError"})
           ELSE /\ df_dK' = DivideBy(df_dK, c, NormalizeDivisor(L, c))
                /\ Goto(Pos("s2b", k, j, i))
                /\ access' = TouchDivide(2, k, c)
                /\ UNCHANGED <<impl, nthreads, L, df_dL, N, task>>

\* step 2, fold into the diagonal
S2b ==
    /\ pc = "s2b"
    /\ LET c == FoldCells(j, k)
       IN  IF AllIn(df_dK, {c.tgt, c.mul}) /\ InBounds(L, c.fac)
           THEN /\ df_dK' = SubMul(df_dK, L, c)
                /\ Goto(After2b(N, k, j, i))
                /\ access' = TouchSubMul(-1, 2, k, c)
                /\ UNCHANGED <<impl, nthreads, L, df_dL, N, task>>
           ELSE Fault(OutOfBounds(impl))

\* step 3, then the head of the k loop: the next column, or return df_dK
S3 ==
    /\ pc = "s3"
    /\ LET c == CloseCells(k)
       IN  IF ~(InBounds(df_dK, c.tgt) /\ InBounds(L, c.fac))
           THEN Fault(OutOfBounds(impl))
           ELSE IF DivisionRaises(impl, CloseDivisor(L, c))
           THEN Fault({"ZeroDivisionError"})
           ELSE /\ df_dK' = DivideBy(df_dK, c, CloseDivisor(L, c))
                /\ LET p == EnterColumn(impl, N, k - 1, j, i)
                   IN  Goto(p) /\ task' = TasksAt(p, N)
                /\ access' = TouchDivide(3, k, c)
                /\ UNCHANGED <<impl, nthreads, L, df_dL, N>>

\* ---- the parallel step 1: "with nogil, parallel(): for i in prange(k+1, N)"
Running(r) == task[r].st \in {"a", "b"}

\* a thread of the team takes iteration r: head of "for j in range(k+1, i+1)"
TaskStart(r) ==
    /\ pc = "p1"
    /\ task[r].st = "idle"
    /\ Cardinality({q \in DOMAIN task : Running(q)}) < nthreads
    /\ task' = [task EXCEPT ![r].st = "a", ![r].j = k + 1]
    /\ access' = NoAccess
    /\ UNCHANGED <<impl, nthreads, L, df_dL, df_dK, N, pc, k, j, i, outcome>>

\* (a slip: the second inner loop reads df_dK[i, j], above the diagonal,
\* instead of the mirrored df_dK[j, i])
TaskCellsUnmirrored(r, t, kk) ==
    [tgt |-> <<r, kk>>, mul |-> <<r, t.j>>, fac |-> <<t.j, kk>>]

\* (a slip: the second inner loop keeps the sequential kernel's target,
\* df_dK[j, k], a cell of another row)
TaskCellsSharedTarget(r, t, kk) ==
    [tgt |-> IF t.st = "a" THEN <<r, kk>> ELSE <<t.j, kk>>,
     mul |-> IF t.st = "a" THEN <<r, t.j>> ELSE <<t.j, r>>,
     fac |-> IF t.st = "a" THEN <<t.j, kk>> ELSE <<r, kk>>]

\* the cells of iteration r's current statement:
\*   for j in range(k+1, i+1): df_dK[i, k] -= df_dK[i, j] * L[j, k]
\*   for j in range(i, N):     df_dK[i, k] -= df_dK[j, i] * L[j, k]
TaskCells(r, t, kk) ==
    [tgt |-> <<r, kk>>,
     mul |-> IF t.st = "a" THEN <<r, t.j>> ELSE <<t.j, r>>,
     fac |-> <<t.j, kk>>]

\* iteration r evaluates the right-hand side of its "-="
TaskLoad(r) ==
    /\ pc = "p1"
    /\ Running(r)
    /\ task[r].ph = "load"
    /\ LET c == TaskCells(r, task[r], k)
       IN  IF AllIn(df_dK, {c.tgt, c.mul}) /\ InBounds(L, c.fac)
           THEN /\ task' = [task EXCEPT
                      ![r].ph = "store",
                      ![r].tmp = SubMulValue(df_dK, L, c),
                      ![r].rd = @ \cup {c.tgt, c.mul}]
                /\ access' = TouchLoad(r, 1, k, c)
                /\ UNCHANGED <<impl, nthreads, L, df_dL, df_dK, N, pc, k, j, i,
                               outcome>>
           ELSE Fault(OutOfBounds(impl))

\* the next j of iteration r: the rest of "for j in range(k+1, i+1)", then
\* "for j in range(i, N)", then the iteration ends
TaskAdvance(t, r, n) ==
    IF t.st = "a" /\ t.j + 1 <= r THEN [t EXCEPT !.j = t.j + 1, !.ph = "load"]
    ELSE IF t.st = "a" THEN [t EXCEPT !.st = "b", !.j = r, !.ph = "load"]
    ELSE IF t.j + 1 < n THEN [t EXCEPT !.j = t.j + 1, !.ph = "load"]
    ELSE [t EXCEPT !.st = "done", !.ph = "load"]

\* iteration r stores the value in the target of its "-="
TaskStore(r) ==
    /\ pc = "p1"
    /\ Running(r)
    /\ task[r].ph = "store"
    /\ LET c == TaskCells(r, task[r], k)
       IN  /\ df_dK' = [df_dK EXCEPT !.at[c.tgt] = task[r].tmp]
           /\ task' = [task EXCEPT
                  ![r] = TaskAdvance([task[r] EXCEPT !.wr = @ \cup {c.tgt}], r, N)]
           /\ access' = TouchStore(r, 1, k, c)
    /\ UNCHANGED <<impl, nthreads, L, df_dL, N, pc, k, j, i, outcome>>

\* (a slip: the calling thread leaves the region without waiting, as under
\* a nowait clause)
JoinWithoutBarrier ==
    /\ pc = "p1"
    /\ Goto(Step2Start(N, k, j, i))
    /\ access' = NoAccess
    /\ UNCHANGED <<impl, nthreads, L, df_dL, df_dK, N, task>>

\* the barrier that ends the parallel region: every iteration has finished
Join ==
    /\ pc = "p1"
    /\ \A r \in DOMAIN task : task[r].st = "done"
    /\ Goto(Step2Start(N, k, j, i))
    /\ access' = NoAccess
    /\ UNCHANGED <<impl, nthreads, L, df_dL, df_dK, N, task>>

Next ==
    \/ Call
    \/ S1a
    \/ S1b
    \/ S2a
    \/ S2b
    \/ S3
    \/ \E r \in DOMAIN task : TaskStart(r)
    \/ \E r \in DOMAIN task : TaskLoad(r)
    \/ \E r \in DOMAIN task : TaskStore(r)
    \/ Join

Spec == Init /\ [][Next]_vars

\* The calling thread keeps executing its statements and the threads of the
\* team keep executing their iterations: while a step is possible, one is
\* taken.
\* Which steps a valid call takes depends on n, on the implementation and on
\* the schedule, never on the values: the calls of the fair specification are
\* those on the identity and on the dense factor of unit diagonal, with the
\* dense seeds.
FairInputs ==
    UNION {{FactorOf(n, "one", o) : o \in {{}, StrictLower(n)}}
             \X {SeedOf(n, <<s, <<0, 0>>>>) : s \in {"ones", "ramp"}} : n \in Sizes}
FairInit ==
    /\ \E c \in Configs : impl = c[1] /\ nthreads = c[2]
    /\ \E inp \in FairInputs : L = inp[1] /\ df_dL = inp[2]
    /\ df_dK = NoMatrix
    /\ N = -1
    /\ pc = "call"
    /\ k = -1 /\ j = -1 /\ i = -1
    /\ task = [r \in {} |-> IdleTask(-1)]
    /\ outcome = "running"
    /\ access = NoAccess
FairSpec == FairInit /\ [][Next]_vars /\ WF_vars(Next)

\* ============================================================== properties
\* L and df_dL are square and of one size
SameShape == L.rows = L.cols /\ df_dL.rows = L.rows /\ df_dL.cols = L.rows
PositiveDiag == \A d \in 0 .. L.rows - 1 : InBounds(L, <<d, d>>) => At(L, d, d)[1] > 0
\* a call the kernel's contract admits
ValidCall == SameShape /\ PositiveDiag
Returned == pc = "done" /\ outcome = "returned"

\* C1: on every valid call every implementation returns, and returns the
\* matrix the sequential kernel computes: the parallel kernel's result is
\* the sequential one's for every team size and every interleaving of the
\* loads and stores of the row iterations of step 1.
C1_ParallelEqualsSequential ==
    (ValidCall /\ pc = "done") =>
        /\ outcome = "returned"
        /\ df_dK = backprop_gradient_pure(df_dL, L)

\* a parallel call on a 3 x 3 or larger input, all rows of step 1 running
\* side by side, has returned a matrix that step 1 changed
C1_Witness ==
    /\ impl = "par" /\ nthreads > N /\ N >= 3 /\ ValidCall /\ Returned
    /\ \E r \in DOMAIN task : task[r].wr # {}
    /\ \E x \in StrictLower(N) : df_dK.at[x] # df_dL.at[x]

\* ---- the gradient with respect to K
\* K = L L^T, so a change dL of the factor changes K by dL L^T + L dL^T.
\* For dL the unit matrix at (p, q), that change at cell (r, c) is
\* [r = p] L[c, q] + [c = p] L[r, q].
dK_dL(Lm, p, q, r, c) ==
    FSub(IF r = p THEN At(Lm, c, q) ELSE Zero,
         FSub(Zero, IF c = p THEN At(Lm, r, q) ELSE Zero))

\* the sum over the cells S of G[r, c] * dK[r, c]
RECURSIVE Contract(_, _, _, _, _)
Contract(G, Lm, p, q, S) ==
    IF S = {} THEN Zero
    ELSE LET x == CHOOSE y \in S : TRUE
         IN  FSub(Contract(G, Lm, p, q, S \ {x}),
                  FSub(Zero, FMul(G.at[x], dK_dL(Lm, p, q, x[1], x[2]))))

\* G is the gradient of f with respect to the lower triangle of K, where
\* f(L) has the gradient B with respect to L: moving L[p, q] moves f by
\* B[p, q], and by the sum of G[r, c] times the move of K[r, c] (each cell
\* below the diagonal standing for the pair K[r, c], K[c, r]).
IsGradientWrtK(G, B, Lm) ==
    \A x \in Lower(Lm.rows) :
        Contract(G, Lm, x[1], x[2], Lower(Lm.rows)) = B.at[x]

\* C2: on a valid call (L the Cholesky factor of K = L L^T) with the seed
\* df_dL = B, the gradient of f(L) = sum(L * B), the matrix returned is the
\* exact gradient of f with respect to the lower-triangle entries of K, the
\* value a centered finite-difference estimate approximates.
C2_ReturnsGradientWrtK ==
    (ValidCall /\ pc = "done") => IsGradientWrtK(df_dK, df_dL, L)

\* a dense 3 x 3 factor and the dense seed: every term of every sum counts
C2_Witness ==
    /\ ValidCall /\ Returned /\ N >= 3
    /\ \A x \in Lower(N) : L.at[x] # Zero /\ df_dK.at[x] # Zero
    /\ \E x \in Lower(N) : df_dL.at[x][1] < 0

\* C3 (as claimed): a call with a zero or negative L[k, k] ends in
\* InvalidFactorError, returns no matrix, and never divides by that L[k, k].
C3_InvalidFactorRaises ==
    (SameShape /\ ~PositiveDiag) =>
        /\ pc = "done" => outcome = "InvalidFactorError"
        /\ \A c \in access.div : L.at[c][1] > 0

\* C4 (as claimed): a call whose L and df_dL are not square and of one size
\* ends in DimensionMismatchError before the column sweep starts, and no
\* cell of the adjoint is updated.
C4_MismatchRaises ==
    ~SameShape =>
        /\ pc = "done" => outcome = "DimensionMismatchError"
        /\ access.wr = {}

\* ---- the identity factor
IsIdentity(M) ==
    /\ M.rows = M.cols
    /\ \A x \in DOMAIN M.at : M.at[x] = IF x[1] = x[2] THEN Num(1) ELSE Zero

\* step 3 of column c has run
Closed(c) == pc = "done" \/ c > k

\* C5: with L the identity, at every point of the sweep each cell of the
\* lower triangle of the adjoint still holds its seed, except the diagonal
\* cells of the columns whose step 3 has run, which hold half of it; so the
\* call returns df_dL[k, k] / 2 on the diagonal and df_dL[i, k] below it.
C5_IdentityFactor ==
    (IsIdentity(L) /\ SameShape /\ pc # "call") =>
        /\ pc = "done" => outcome = "returned"
        /\ \A x \in Lower(N) :
              df_dK.at[x] = IF x[1] = x[2] /\ Closed(x[2])
                            THEN FDiv(df_dL.at[x], Num(2))
                            ELSE df_dL.at[x]

\* the 3 x 3 identity and a seed with no zero in its outer cells
C5_Witness ==
    /\ IsIdentity(L) /\ SameShape /\ N >= 3 /\ Returned
    /\ df_dK.at[<<2, 0>>] = df_dL.at[<<2, 0>>] /\ df_dL.at[<<2, 0>>] # Zero
    /\ df_dK.at[<<2, 2>>] # Zero

\* C6: no step of any implementation changes L.
C6_FactorNotMutated == [][L' = L]_vars

\* a call that ran steps 1, 2 and 3 and changed the adjoint has returned
C6_Witness ==
    /\ Returned /\ N >= 2 /\ L.rows = N
    /\ \E x \in StrictLower(N) : df_dK.at[x] # df_dL.at[x]

\* ---- the lower triangle
UpperVals == {-1, 0, 2}
\* the seed M with every entry above the diagonal replaced by v
WithUpper(M, v) ==
    [M EXCEPT !.at = [x \in DOMAIN M.at |->
                        IF x[1] < x[2] THEN Num(v) ELSE M.at[x]]]

\* C7: every adjoint cell a statement reads or writes and every cell of L it
\* reads has row >= column; the adjoint is zero above the diagonal from the
\* call on; and the matrix returned is the one the kernel computes for any
\* seed that agrees with df_dL on the lower triangle.
C7_LowerTriangleOnly ==
    /\ \A c \in access.wr \cup access.rd \cup access.lrd : c[1] >= c[2]
    /\ pc # "call" =>
          \A x \in DOMAIN df_dK.at : x[1] < x[2] => df_dK.at[x] = Zero
    /\ (ValidCall /\ pc = "done") =>
          \A v \in UpperVals :
              df_dK = backprop_gradient_pure(WithUpper(df_dL, v), L)

\* a 3 x 3 call whose seed is not zero above the diagonal has returned
C7_Witness ==
    /\ ValidCall /\ Returned /\ N >= 3
    /\ df_dL.at[<<0, 2>>] # Zero /\ df_dK.at[<<0, 2>>] = Zero
    /\ df_dK.at[<<2, 0>>] # Zero

\* the columns that step 3 has closed hold what the sequential kernel returns
ClosedColumnsFinal ==
    \A x \in Lower(N) :
        Closed(x[2]) => df_dK.at[x] = backprop_gradient_pure(df_dL, L).at[x]

\* what one step of the sweep keeps: its statement belongs to the current
\* column k and writes cells of column k only; a multiplicand of step 1 comes
\* from a column j > k; the sweep stays or moves one column to the left; no
\* cell of a column j > k changes
KeepsLaterColumns ==
    /\ access'.step > 0 => access'.col = k
    /\ \A c \in access'.wr : c[2] = access'.col
    /\ access'.step = 1 => \A c \in access'.mul : c[2] > access'.col
    /\ pc # "call" =>
          /\ k' \in {k, k - 1}
          /\ \A x \in DOMAIN df_dK.at : x[2] > k => df_dK'.at[x] = df_dK.at[x]

\* C8: a statement of column k writes cells of column k only, and the
\* multiplicands of step 1 come from columns j > k; the sweep only moves to
\* the left, no step changes a cell of a column j > k, and when step 3 has
\* closed a column the closed columns hold their values of the final result.
C8_FinalizedColumns ==
    /\ []((ValidCall /\ access.step = 3) => ClosedColumnsFinal)
    /\ [][KeepsLaterColumns]_vars

\* column 0 of a 3 x 3 call is in step 2 with columns 1 and 2 closed, after
\* step 1 has changed it
C8_Witness ==
    /\ ValidCall /\ N >= 3 /\ pc = "s2b" /\ k = 0
    /\ \E x \in StrictLower(N) : x[2] = 0 /\ df_dK.at[x] # df_dL.at[x]
    /\ \E x \in StrictLower(N) : x[2] = 1 /\ df_dK.at[x] # df_dL.at[x]

\* ---- the row iterations of the parallel step 1
\* iteration r writes no cell but its own, df_dK[r, k]
OwnCellOnly(r) ==
    /\ task[r].wr \subseteq {<<r, task[r].col>>}
    /\ task[r].st = "done" => task[r].wr = {<<r, task[r].col>>}

\* no cell iteration r writes is read or written by another iteration
NoConflict(r) ==
    \A q \in DOMAIN task \ {r} :
        task[r].wr \cap (task[q].rd \cup task[q].wr) = {}

\* C9 (as claimed): in the parallel step 1 of column k, iteration i writes
\* exactly the cell df_dK[i, k] and reads adjoint cells of columns > k only,
\* so no iteration writes a cell another iteration reads or writes.
C9_ReadsLaterColumnsOnly ==
    impl = "par" =>
        \A r \in DOMAIN task :
            /\ OwnCellOnly(r)
            /\ \A c \in task[r].rd : c[2] > task[r].col
            /\ NoConflict(r)

\* C9 (amended): iteration i writes exactly the cell df_dK[i, k]; the adjoint
\* cells it reads are that cell, which "-=" reads before it writes it, and
\* cells of columns > k; so no iteration writes a cell another iteration
\* reads or writes.
C9_DisjointRowTasks ==
    impl = "par" =>
        \A r \in DOMAIN task :
            /\ OwnCellOnly(r)
            /\ \A c \in task[r].rd \ {<<r, task[r].col>>} : c[2] > task[r].col
            /\ NoConflict(r)

\* two iterations of one prange are under way at once, one between its load
\* and its store, the other having stored already
C9_Witness ==
    /\ impl = "par" /\ pc = "p1" /\ ValidCall
    /\ \E r, q \in DOMAIN task :
          /\ r # q /\ Running(r) /\ Running(q)
          /\ task[r].ph = "store" /\ task[r].rd # {}
          /\ task[q].wr # {}

\* C10: in the parallel kernel, steps 2 and 3 of column k run only when
\* every row iteration of step 1 of column k has finished; an iteration is
\* under way only inside the parallel region of the current column; and the
\* column changes only when step 3 completes, to the next column on the left.
C10_BarrierPerColumn ==
    [][ impl = "par" =>
          /\ pc' \in {"s2a", "s2b", "s3"} =>
                /\ DOMAIN task' = (k' + 1) .. (N' - 1)
                /\ \A r \in DOMAIN task' :
                      task'[r].st = "done" /\ task'[r].col = k'
          /\ \A r \in DOMAIN task' :
                task'[r].st \in {"a", "b"} => pc' = "p1" /\ task'[r].col = k'
          /\ pc # "call" =>
                /\ k' \in {k, k - 1}
                /\ k' # k => pc = "s3"
      ]_vars

\* step 2 of column 0 of a 3 x 3 parallel call begins: both row iterations
\* of column 0 have finished, and columns 2 and 1 were processed before
C10_Witness ==
    /\ impl = "par" /\ nthreads >= 2 /\ ValidCall /\ N >= 3
    /\ pc = "s2a" /\ k = 0
    /\ Cardinality(DOMAIN task) >= 2
    /\ \A r \in DOMAIN task : task[r].st = "done" /\ task[r].wr # {}

\* ---- termination
\* what one step keeps of the order of the columns: the sweep of an n x n
\* call starts at column n - 1; k changes only when step 3 runs; step 3 runs
\* on the current column and leads to column k - 1, or, from column 0, to
\* the return; and a sweep returns from nowhere else
SweepsEachColumnOnce ==
    /\ (pc = "call" /\ N' > 0) => k' = N' - 1 /\ pc' # "done"
    /\ (pc # "call" /\ k' # k) => access'.step = 3
    /\ access'.step = 3 =>
          /\ pc = "s3" /\ access'.col = k
          /\ IF k = 0 THEN pc' = "done" /\ outcome' = "returned" /\ k' = 0
             ELSE pc' # "done" /\ k' = k - 1
    /\ (pc # "call" /\ pc' = "done" /\ outcome' = "returned") =>
          access'.step = 3 /\ k = 0

\* a call on empty arrays returns the empty matrix, untouched, with no error
EmptyCallReturns ==
    (N = 0 /\ pc = "done") =>
        /\ outcome = "returned"
        /\ df_dK = Tril(df_dL) /\ df_dK.rows = 0
        /\ access = NoAccess /\ k = -1

\* C11: for every n >= 0 and every valid input, every kernel (the row
\* iterations of the parallel one being scheduled fairly) eventually returns,
\* having processed each column n - 1, ..., 0 exactly once; for n = 0 it
\* updates nothing and returns the empty matrix without error.
C11_TerminatesAfterOneSweep ==
    /\ ValidCall ~> Returned
    /\ [][SweepsEachColumnOnce]_vars
    /\ []EmptyCallReturns

\* a parallel 3 x 3 call has returned from step 3 of column 0, its last
\* prange having run both of its iterations
C11_Witness ==
    /\ impl = "par" /\ nthreads >= 2 /\ ValidCall /\ N >= 3 /\ Returned
    /\ access.step = 3 /\ access.col = 0 /\ k = 0
    /\ \A r \in DOMAIN task : task[r].st = "done"
    /\ Cardinality(DOMAIN task) >= 2

=============================================================================
